---- MODULE Spec2Model ----
(***************************************************************************)
(* Model of convert-llama-ggmlv3-to-gguf.py: the decoder of the legacy     *)
(* GGJTv3 container (GGMLV3Model.load and the loaders it calls) and the    *)
(* converter that hands metadata, vocabulary and tensors to a GGUF writer  *)
(* (GGMLToGGUF).  The input file is a sequence of bytes; every integer is  *)
(* decoded from its little-endian bytes as struct.unpack does.  Offsets    *)
(* are 0-based as in the source, data[o] is written Byte(data, o).         *)
(***************************************************************************)
EXTENDS Integers, Sequences, FiniteSets, TLC

\* ------------------------------------------------------------------------
\* Bounds of the explored inputs
\* ------------------------------------------------------------------------
\* largest number of tensor entries of an input container
MaxTensors == 2
\* largest number of bytes cut off the end of an input container
MaxCut == 44
\* largest number of entries of an override vocabulary
MaxOverride == 3
\* largest head count / GQA factor of the small head-count sweep
MaxHead == 9

\* An optional value is a tuple: None when absent, Some(v) when it is v
None == << >>
Some(v) == <<v>>
Val(o) == o[1]

\* ------------------------------------------------------------------------
\* Byte-level helpers (Python slicing and struct.unpack)
\* ------------------------------------------------------------------------
Min(a, b) == IF a < b THEN a ELSE b

Byte(d, o) == d[o + 1]

\* d[a:b] for 0 <= a <= b: a slice never fails, it is cut at the end of d
PySlice(d, a, b) ==
    IF a >= Min(b, Len(d)) THEN << >> ELSE SubSeq(d, a + 1, Min(b, Len(d)))

\* struct.unpack needs exactly the bytes of its format: a short slice raises
CanUnpack(d, o, n) == Len(PySlice(d, o, o + n)) = n

\* struct.unpack('<I', d[o:o+4])[0]
UnpackU32(d, o) ==
    Byte(d, o) + 256 * Byte(d, o + 1) + 65536 * Byte(d, o + 2)
        + 16777216 * Byte(d, o + 3)

\* struct.unpack(f'<{n}I', d[o:o+4*n])
UnpackU32s(d, o, n) == [i \in 1..n |-> UnpackU32(d, o + 4 * (i - 1))]

\* struct.unpack('<f', d[o:o+4])[0]: the score is kept as the value of its
\* four bytes read as a little-endian integer (one-to-one with the float
\* they encode, NaNs aside)
UnpackF32(d, o) == UnpackU32(d, o)

RECURSIVE Prod(_)
\* product of the entries of a tuple, 1 for the empty tuple (np.prod)
Prod(s) == IF Len(s) = 0 THEN 1 ELSE s[1] * Prod(Tail(s))

\* ------------------------------------------------------------------------
\* Quantization catalog
\* ------------------------------------------------------------------------
QK_K == 256

\* (block size, type size), keyed by the value of gguf.GGMLQuantizationType
GGML_QUANT_SIZES ==
    ( 0 :> <<1, 4>>) @@
    ( 1 :> <<1, 2>>) @@
    ( 2 :> <<32, 2 + 16>>) @@
    ( 3 :> <<32, 2 + 2 + 16>>) @@
    ( 6 :> <<32, 2 + 4 + 16>>) @@
    ( 7 :> <<32, 2 + 2 + 4 + 16>>) @@
    ( 8 :> <<32, 2 + 32>>) @@
    ( 9 :> <<32, 4 + 4 + 32>>) @@
    (10 :> <<256, 2 + 2 + (QK_K \div 16) + (QK_K \div 4)>>) @@
    (11 :> <<256, 2 + (QK_K \div 4) + (QK_K \div 8) + 12>>) @@
    (12 :> <<256, 2 + 2 + (QK_K \div 2) + 12>>) @@
    (13 :> <<256, 2 + 2 + (QK_K \div 2) + (QK_K \div 8) + 12>>) @@
    (14 :> <<256, 2 + (QK_K \div 2) + (QK_K \div 4) + (QK_K \div 16)>>) @@
    (15 :> <<256, 4 + QK_K + (QK_K \div 8)>>)

\* ------------------------------------------------------------------------
\* Hyperparameters
\* ------------------------------------------------------------------------
\* Hyperparameters.__init__
Hyperparameters_init ==
    [n_vocab |-> 0, n_embd |-> 0, n_mult |-> 0, n_head |-> 0, n_layer |-> 0,
     n_rot |-> 0, ftype |-> 0, n_ff |-> 0]

\* Hyperparameters.load: seven little-endian u32, 28 bytes
Hyperparameters_load(d, offset) ==
    IF ~CanUnpack(d, offset, 4 * 7) THEN [ok |-> FALSE]
    ELSE LET v == UnpackU32s(d, offset, 7)
         IN  [ok |-> TRUE,
              hp |-> [n_vocab |-> v[1], n_embd |-> v[2], n_mult |-> v[3],
                      n_head |-> v[4], n_layer |-> v[5], n_rot |-> v[6],
                      ftype |-> v[7], n_ff |-> 0],
              size |-> 4 * 7]

\* ------------------------------------------------------------------------
\* Vocab
\* ------------------------------------------------------------------------
\* one iteration of the loop of Vocab.load, from the items and offset of s;
\* a loop that has raised stays failed
Vocab_step(d, s) ==
    IF ~s.ok THEN s
    ELSE IF ~CanUnpack(d, s.offset, 4) THEN [ok |-> FALSE]
    ELSE LET itemlen == UnpackU32(d, s.offset)
         IN  IF ~(itemlen < 4096) THEN [ok |-> FALSE]
             ELSE LET vocab == PySlice(d, s.offset + 4, s.offset + 4 + itemlen)
                      so    == s.offset + 4 + itemlen
                  IN  IF ~CanUnpack(d, so, 4) THEN [ok |-> FALSE]
                      ELSE [ok |-> TRUE,
                            items |-> Append(s.items,
                                             <<vocab, UnpackF32(d, so)>>),
                            offset |-> so + 4]

RECURSIVE Vocab_loop(_, _, _)
\* k iterations of the loop of Vocab.load from s (k iterations are k \div 2
\* iterations followed by the rest)
Vocab_loop(d, s, k) ==
    IF k = 0 THEN s
    ELSE IF k = 1 THEN Vocab_step(d, s)
    ELSE LET mid == Vocab_loop(d, s, k \div 2)
         IN  IF mid.ok THEN Vocab_loop(d, mid, k - (k \div 2)) ELSE mid

\* Vocab.load
Vocab_load(d, offset, n_vocab) ==
    LET r == Vocab_loop(d, [ok |-> TRUE, items |-> << >>, offset |-> offset],
                        n_vocab)
    IN  IF r.ok THEN [ok |-> TRUE, items |-> r.items, size |-> r.offset - offset]
        ELSE [ok |-> FALSE]

\* ------------------------------------------------------------------------
\* Tensor
\* ------------------------------------------------------------------------
\* a pad that rounds up to 16 instead of 32
Pad16(offset) == ((offset + 15) - ((offset + 15) % 16)) - offset

\* pad = ((offset + 31) & ~31) - offset
Pad(offset) == ((offset + 31) - ((offset + 31) % 32)) - offset

\* n_bytes = (n_elems * tysize) // blksize
NBytes(dims, blksize, tysize) == (Prod(dims) * tysize) \div blksize

\* Tensor.load.  np.prod of the empty tuple is the float 1.0, so n_bytes,
\* len_bytes and the returned size of a tensor without dimensions are
\* floats: IsFloatLen below.
Tensor_load(d, offset) ==
    IF ~CanUnpack(d, offset, 12) THEN [ok |-> FALSE]
    ELSE
    LET n_dims   == UnpackU32(d, offset)
        name_len == UnpackU32(d, offset + 4)
        dtype    == UnpackU32(d, offset + 8)
    IN  IF ~(n_dims >= 0 /\ n_dims <= 4) THEN [ok |-> FALSE]
        ELSE IF ~(name_len < 4096) THEN [ok |-> FALSE]
        ELSE IF dtype \notin DOMAIN GGML_QUANT_SIZES THEN [ok |-> FALSE]
        ELSE IF ~CanUnpack(d, offset + 12, 4 * n_dims) THEN [ok |-> FALSE]
        ELSE
        LET blksize == GGML_QUANT_SIZES[dtype][1]
            tysize  == GGML_QUANT_SIZES[dtype][2]
            dims    == UnpackU32s(d, offset + 12, n_dims)
            o1      == offset + 12 + 4 * n_dims
            name    == PySlice(d, o1, o1 + name_len)
            o2      == o1 + name_len
            o3      == o2 + Pad(o2)
            n_bytes == NBytes(dims, blksize, tysize)
        IN  [ok |-> TRUE,
             tensor |-> [name |-> name, dims |-> dims, dtype |-> dtype,
                         start_offset |-> o3, len_bytes |-> n_bytes],
             size |-> (o3 + n_bytes) - offset]

\* len_bytes of this tensor is a numpy float (it has no dimensions)
IsFloatLen(t) == Len(t.dims) = 0

\* ------------------------------------------------------------------------
\* GGMLV3Model
\* ------------------------------------------------------------------------
MAGIC == <<116, 106, 103, 103>>                              \* b'tjgg'

\* b'layers.0.feed_forward.w1.weight'
FF_NAME == <<108, 97, 121, 101, 114, 115, 46, 48, 46, 102, 101, 101, 100, 95,
             102, 111, 114, 119, 97, 114, 100, 46, 119, 49, 46, 119, 101, 105,
             103, 104, 116>>

\* GGMLV3Model.__init__
GGMLV3Model_init ==
    [hyperparameters |-> None, vocab |-> None, tensor_map |-> << >>,
     tensors |-> << >>]

\* GGMLV3Model.validate_header: TRUE when it returns 8, FALSE when it raises
validate_header(d, offset) ==
    /\ PySlice(d, offset, offset + 4) = MAGIC
    /\ CanUnpack(d, offset + 4, 4)
    /\ UnpackU32(d, offset + 4) = 3

RECURSIVE LoadTensors(_, _, _)
\* the while loop of GGMLV3Model.load.  After a tensor without dimensions
\* the offset is a float, and the slice of the next Tensor.load raises.
LoadTensors(d, offset, tensors) ==
    IF ~(offset < Len(d)) THEN [ok |-> TRUE, tensors |-> tensors]
    ELSE IF Len(tensors) > 0 /\ IsFloatLen(tensors[Len(tensors)])
         THEN [ok |-> FALSE]
    ELSE LET r == Tensor_load(d, offset)
         IN  IF ~r.ok THEN [ok |-> FALSE]
             ELSE LoadTensors(d, offset + r.size, Append(tensors, r.tensor))

\* tensor_map after the loop: name -> index of the last tensor of that name
\* (indices are 1-based here, 0-based in the source)
TensorMap(tensors) ==
    [n \in {tensors[i].name : i \in 1..Len(tensors)} |->
        CHOOSE i \in 1..Len(tensors) :
            /\ tensors[i].name = n
            /\ \A j \in 1..Len(tensors) : tensors[j].name = n => j <= i]

\* Hyperparameters.set_n_ff: fails when the tensor is missing, or when it
\* has fewer than two dimensions (dims[1] raises)
set_n_ff(hp, tensors, tensor_map) ==
    IF FF_NAME \notin DOMAIN tensor_map THEN [ok |-> FALSE]
    ELSE LET ff_tensor == tensors[tensor_map[FF_NAME]]
         IN  IF Len(ff_tensor.dims) < 2 THEN [ok |-> FALSE]
             ELSE [ok |-> TRUE, hp |-> [hp EXCEPT !.n_ff = ff_tensor.dims[2]]]

\* GGMLV3Model.load(data, 0)
GGMLV3Model_load(d) ==
    IF ~validate_header(d, 0) THEN [ok |-> FALSE]
    ELSE LET h == Hyperparameters_load(d, 8)
    IN  IF ~h.ok THEN [ok |-> FALSE]
    ELSE LET v == Vocab_load(d, 8 + h.size, h.hp.n_vocab)
    IN  IF ~v.ok THEN [ok |-> FALSE]
    ELSE LET t == LoadTensors(d, 8 + h.size + v.size, << >>)
    IN  IF ~t.ok THEN [ok |-> FALSE]
    ELSE LET tm == TensorMap(t.tensors)
             f  == set_n_ff(h.hp, t.tensors, tm)
    IN  IF ~f.ok THEN [ok |-> FALSE]
        ELSE [ok |-> TRUE,
              model |-> [hyperparameters |-> f.hp, vocab |-> v.items,
                         tensor_map |-> tm, tensors |-> t.tensors]]

\* ------------------------------------------------------------------------
\* GGMLToGGUF
\* ------------------------------------------------------------------------
\* the x of range(1, 256) with float(n_head) / float(x) == float(gqa).  Both
\* operands are integers below 2^32, so the IEEE quotient is an integer
\* exactly when the division is exact: the comparison is n_head = gqa * x.
GQAMatches(n_head, gqa) == {x \in 1..255 : n_head = gqa * x}

SetMax(S) == CHOOSE x \in S : \A y \in S : y <= x

\* the loop of GGMLToGGUF.__init__ keeps the last x that matches; the
\* assertion fails when none does
GuessKVHead(n_head, gqa) ==
    IF GQAMatches(n_head, gqa) = {} THEN [ok |-> FALSE]
    ELSE [ok |-> TRUE, n_kv_head |-> SetMax(GQAMatches(n_head, gqa))]

\* GGMLToGGUF.__init__: the resolution of n_kv_head
ResolveKVHead(params_override, gqa, n_head) ==
    IF params_override # None
    THEN [ok |-> TRUE, n_kv_head |-> Val(params_override).n_head_kv]
    ELSE IF gqa = 1 THEN [ok |-> TRUE, n_kv_head |-> n_head]
    ELSE GuessKVHead(n_head, gqa)

\* b'.weight' and b'.bias'
SUFFIX_WEIGHT == <<46, 119, 101, 105, 103, 104, 116>>
SUFFIX_BIAS   == <<46, 98, 105, 97, 115>>

\* name.endswith(suf)
EndsWith(name, suf) ==
    /\ Len(name) >= Len(suf)
    /\ SubSeq(name, Len(name) - Len(suf) + 1, Len(name)) = suf

\* name[:-k]
DropLast(name, k) == SubSeq(name, 1, Len(name) - k)

\* gguf.get_tensor_name_map(MODEL_ARCH.LLAMA, n_layer), restricted to the
\* names the inputs use: tok_embeddings, norm, output and, per layer,
\* layers.{bid}.feed_forward.w1 (layer 0 here)
NameMap(n_layer) ==
    (<<116, 111, 107, 95, 101, 109, 98, 101, 100, 100, 105, 110, 103, 115>>
        :> "token_embd") @@
    (<<110, 111, 114, 109>> :> "output_norm") @@
    (<<111, 117, 116, 112, 117, 116>> :> "output") @@
    (IF n_layer >= 1
     THEN (<<108, 97, 121, 101, 114, 115, 46, 48, 46, 102, 101, 101, 100, 95,
             102, 111, 114, 119, 97, 114, 100, 46, 119, 49>> :> "blk.0.ffn_gate")
     ELSE << >>)

\* a swap that is applied to matrices only
SwapDimsOnly2D(dims) ==
    IF Len(dims) = 2 THEN <<dims[2], dims[1]>> ELSE dims

\* tempdims of add_tensors: the first two dimensions exchanged when there
\* is more than one
SwapDims(dims) ==
    IF Len(dims) > 1
    THEN [i \in 1..Len(dims) |->
            IF i = 1 THEN dims[2] ELSE IF i = 2 THEN dims[1] ELSE dims[i]]
    ELSE dims

\* the suffix variable of add_tensors after the if/elif on this name; it
\* keeps the value of the previous iteration when neither branch is taken
NextSuffix(name, suffix) ==
    IF EndsWith(name, SUFFIX_WEIGHT) THEN ".weight"
    ELSE IF EndsWith(name, SUFFIX_BIAS) THEN ".bias"
    ELSE suffix

\* the name variable of add_tensors after the if/elif
BaseName(name) ==
    IF EndsWith(name, SUFFIX_WEIGHT) THEN DropLast(name, 7)
    ELSE IF EndsWith(name, SUFFIX_BIAS) THEN DropLast(name, 5)
    ELSE name

RECURSIVE add_tensors_loop(_, _, _, _, _, _)
\* the for loop of add_tensors from tensor i on.  suffix is "" while the
\* local variable is unbound (reading it raises UnboundLocalError); a value
\* of len_bytes that is a float makes the slice of data raise.
add_tensors_loop(d, nm, tensors, i, suffix, out) ==
    IF i > Len(tensors) THEN [ok |-> TRUE, ti |-> out]
    ELSE
    LET tensor == tensors[i]
        name   == BaseName(tensor.name)
        suf    == NextSuffix(tensor.name, suffix)
    IN  IF name \notin DOMAIN nm THEN [ok |-> FALSE, ti |-> out]
        ELSE IF suf = "" THEN [ok |-> FALSE, ti |-> out]
        ELSE IF IsFloatLen(tensor) THEN [ok |-> FALSE, ti |-> out]
        ELSE add_tensors_loop(d, nm, tensors, i + 1, suf,
                 Append(out,
                    [name |-> [base |-> nm[name], suffix |-> suf],
                     data |-> PySlice(d, tensor.start_offset,
                                      tensor.start_offset + tensor.len_bytes),
                     raw_shape |-> SwapDims(tensor.dims),
                     raw_dtype |-> tensor.dtype]))

\* GGMLToGGUF.add_tensors
add_tensors(d, m) ==
    add_tensors_loop(d, NameMap(m.hyperparameters.n_layer), m.tensors, 1,
                     "", << >>)

\* GGMLToGGUF.add_params: the key/value pairs handed to the writer, in call
\* order.  An assertion on the override, or the division by a head count of
\* zero in the argument of add_rope_dimension_count, stops the method after
\* the pairs already handed over.
add_params(hp, c, params_override, n_kv_head) ==
    LET desc == IF c.desc # None THEN Val(c.desc)
                ELSE "converted from legacy GGJTv3 format"
        name == IF c.name # None THEN c.name ELSE Some(c.input_name)
        head == (IF name # None THEN << <<"name", Val(name)>> >> ELSE << >>)
                    \o << <<"description", desc>> >>
        po   == Val(params_override)
    IN  IF params_override # None
        THEN IF ~(po.n_embd = hp.n_embd /\ po.n_layer = hp.n_layer
                    /\ po.n_head = hp.n_head)
             THEN [ok |-> FALSE, kv |-> head]
             ELSE LET pre == head \o
                         << <<"context_length", po.n_ctx>>,
                            <<"embedding_length", po.n_embd>>,
                            <<"block_count", po.n_layer>>,
                            <<"feed_forward_length", po.n_ff>> >>
                  IN  IF po.n_head = 0 THEN [ok |-> FALSE, kv |-> pre]
                      ELSE [ok |-> TRUE, kv |-> pre \o
                         << <<"rope_dimension_count", po.n_embd \div po.n_head>>,
                            <<"head_count", po.n_head>>,
                            <<"head_count_kv", po.n_head_kv>>,
                            <<"layer_norm_rms_eps", po.f_norm_eps>> >>]
        ELSE LET pre == head \o
                    << <<"context_length", c.context_length>>,
                       <<"embedding_length", hp.n_embd>>,
                       <<"block_count", hp.n_layer>>,
                       <<"feed_forward_length", hp.n_ff>> >>
             IN  IF hp.n_head = 0 THEN [ok |-> FALSE, kv |-> pre]
                 ELSE [ok |-> TRUE, kv |-> pre \o
                    << <<"rope_dimension_count", hp.n_embd \div hp.n_head>>,
                       <<"head_count", hp.n_head>>,
                       <<"head_count_kv", n_kv_head>>,
                       <<"layer_norm_rms_eps", c.eps>> >>]

\* token types of add_vocab
TT_NORMAL  == 1
TT_CONTROL == 3
TT_BYTE    == 6

\* the character of "0123456789abcdef" for one hexadecimal digit
HexDigit(v) == IF v < 10 THEN 48 + v ELSE 97 + (v - 10)

\* hex(b) for a byte b: '0x' and the digits without leading zeros
PyHex(b) ==
    <<48, 120>> \o (IF b < 16 THEN <<HexDigit(b)>>
                    ELSE <<HexDigit(b \div 16), HexDigit(b % 16)>>)

\* str.upper() on ASCII
PyUpper(s) == [i \in 1..Len(s) |-> IF s[i] >= 97 /\ s[i] <= 122
                                    THEN s[i] - 32 ELSE s[i]]

\* bytes(f'<0x{hv}>', encoding = 'UTF-8') with hv = hex(b)[2:].upper()
ByteTokenText(b) ==
    <<60, 48, 120>> \o PyUpper(SubSeq(PyHex(b), 3, Len(PyHex(b)))) \o <<62>>

RECURSIVE ReplaceSpaces(_)
\* vbytes.replace(b' ', b'\xe2\x96\x81')
ReplaceSpaces(v) ==
    IF Len(v) = 0 THEN << >>
    ELSE (IF v[1] = 32 THEN <<226, 150, 129>> ELSE <<v[1]>>)
             \o ReplaceSpaces(Tail(v))

\* a classification whose byte range starts one id late
HeuristicTypeFrom4(tokid, vbytes) ==
    IF Len(vbytes) = 0 THEN TT_CONTROL
    ELSE IF tokid > 3 /\ tokid <= 258 /\ Len(vbytes) = 1 THEN TT_BYTE
    ELSE TT_NORMAL

\* tt of one iteration of the heuristic loop of add_vocab
HeuristicType(tokid, vbytes) ==
    IF Len(vbytes) = 0 THEN TT_CONTROL
    ELSE IF tokid >= 3 /\ tokid <= 258 /\ Len(vbytes) = 1 THEN TT_BYTE
    ELSE TT_NORMAL

\* vbytes at the end of one iteration of the heuristic loop of add_vocab
HeuristicText(tokid, vbytes) ==
    IF Len(vbytes) = 0 THEN vbytes
    ELSE IF tokid >= 3 /\ tokid <= 258 /\ Len(vbytes) = 1
         THEN ByteTokenText(vbytes[1])
    ELSE ReplaceSpaces(vbytes)

\* add_vocab without an override: the three lists handed to the writer
\* (token ids are 0-based in the source, items[i] has id i - 1)
add_vocab_heuristic(items) ==
    [ok |-> TRUE,
     tokens   |-> Some([i \in 1..Len(items) |->
                            HeuristicText(i - 1, items[i][1])]),
     scores   |-> Some([i \in 1..Len(items) |-> items[i][2]]),
     toktypes |-> Some([i \in 1..Len(items) |->
                            HeuristicType(i - 1, items[i][1])])]

RECURSIVE OverrideTypes(_)
\* toktypes of the override loop: the types of the items that have one
OverrideTypes(all) ==
    IF Len(all) = 0 THEN << >>
    ELSE (IF Len(all[1]) = 3 THEN <<all[1][3]>> ELSE << >>)
             \o OverrideTypes(Tail(all))

\* an override that is only required not to exceed n_vocab
add_vocab_override_short(all, n_vocab) ==
    LET toks == [i \in 1..Len(all) |-> all[i][1]]
        scs  == [i \in 1..Len(all) |-> all[i][2]]
        tts  == OverrideTypes(all)
    IN  IF ~(Len(toks) <= n_vocab)
        THEN [ok |-> FALSE, tokens |-> None, scores |-> None, toktypes |-> None]
        ELSE [ok |-> TRUE, tokens |-> Some(toks), scores |-> Some(scs),
              toktypes |-> IF Len(tts) > 0 THEN Some(tts) ELSE None]

\* add_vocab with an override: all is vo.all_tokens().  Each field of the
\* result is the list handed to the writer, None when the call is not made.
add_vocab_override(all, n_vocab) ==
    LET toks == [i \in 1..Len(all) |-> all[i][1]]
        scs  == [i \in 1..Len(all) |-> all[i][2]]
        tts  == OverrideTypes(all)
    IN  IF ~(Len(toks) = n_vocab)
        THEN [ok |-> FALSE, tokens |-> None, scores |-> None, toktypes |-> None]
        ELSE [ok |-> TRUE, tokens |-> Some(toks), scores |-> Some(scs),
              toktypes |-> IF Len(tts) > 0 THEN Some(tts) ELSE None]

\* GGMLToGGUF.add_vocab after add_tokenizer_model
add_vocab(m, vocab_override) ==
    IF vocab_override # None
    THEN add_vocab_override(Val(vocab_override), m.hyperparameters.n_vocab)
    ELSE add_vocab_heuristic(m.vocab)

\* ------------------------------------------------------------------------
\* Input files: the legacy container layout, written out byte by byte
\* ------------------------------------------------------------------------
\* four little-endian bytes of v
EncU32(v) == <<v % 256, (v \div 256) % 256, (v \div 65536) % 256,
               (v \div 16777216) % 256>>

RECURSIVE EncU32s(_)
EncU32s(vs) == IF Len(vs) = 0 THEN << >> ELSE EncU32(vs[1]) \o EncU32s(Tail(vs))

RECURSIVE EncVocab(_)
\* vocab[n]: len, bytes, score
EncVocab(items) ==
    IF Len(items) = 0 THEN << >>
    ELSE IF Len(items) = 1
    THEN EncU32(Len(items[1][1])) \o items[1][1] \o EncU32(items[1][2])
    ELSE LET h == Len(items) \div 2
         IN  EncVocab(SubSeq(items, 1, h))
                \o EncVocab(SubSeq(items, h + 1, Len(items)))

\* the payload of a tensor entry: as many bytes as the format gives it
Payload(t) ==
    IF t.dtype \in DOMAIN GGML_QUANT_SIZES /\ Len(t.dims) <= 4
    THEN [i \in 1..NBytes(t.dims, GGML_QUANT_SIZES[t.dtype][1],
                          GGML_QUANT_SIZES[t.dtype][2]) |-> 7]
    ELSE << >>

RECURSIVE EncTensors(_, _)
\* tensor*: ndims, name_len, dtype, dims, name, pad, payload; the first
\* entry starts at offset
EncTensors(ts, offset) ==
    IF Len(ts) = 0 THEN << >>
    ELSE LET t    == ts[1]
             head == EncU32(Len(t.dims)) \o EncU32(Len(t.name))
                        \o EncU32(t.dtype) \o EncU32s(t.dims) \o t.name
             pad  == [i \in 1..((32 - ((offset + Len(head)) % 32)) % 32)
                        |-> 0]
             all  == head \o pad \o Payload(t)
         IN  all \o EncTensors(Tail(ts), offset + Len(all))

\* a whole container
Container(magic, version, hp, items, ts) ==
    LET pre == magic \o EncU32(version)
                 \o EncU32s(<<Len(items), hp.n_embd, hp.n_mult, hp.n_head,
                              hp.n_layer, hp.n_rot, hp.ftype>>)
                 \o EncVocab(items)
    IN  pre \o EncTensors(ts, Len(pre))

\* d without its last k bytes
CutEnd(d, k) == SubSeq(d, 1, Len(d) - Min(k, Len(d)))

\* sequences over S of length lo..hi
SeqsOf(S, lo, hi) == UNION {[1..n -> S] : n \in lo..hi}

\* ---- tensor entries ----
N_TOK_W  == <<116, 111, 107, 95, 101, 109, 98, 101, 100, 100, 105, 110, 103,
              115>> \o SUFFIX_WEIGHT                  \* tok_embeddings.weight
N_NORM   == <<110, 111, 114, 109>>                    \* norm
N_NORM_W == N_NORM \o SUFFIX_WEIGHT                   \* norm.weight
N_OUT_B  == <<111, 117, 116, 112, 117, 116>> \o SUFFIX_BIAS   \* output.bias
N_OUT_W  == <<111, 117, 116, 112, 117, 116>> \o SUFFIX_WEIGHT \* output.weight
N_X_W    == <<120>> \o SUFFIX_WEIGHT                  \* x.weight
N_ROPE   == <<114, 111, 112, 101, 46, 102, 114, 101, 113, 115>> \* rope.freqs

\* the feed-forward tensor every complete container has
FFTensor == [name |-> FF_NAME, dims |-> <<1, 2>>, dtype |-> 1]

TensorDescs ==
    { FFTensor,
      [name |-> FF_NAME,  dims |-> <<2, 3>>,       dtype |-> 2],
      [name |-> FF_NAME,  dims |-> <<4>>,          dtype |-> 0],
      [name |-> N_TOK_W,  dims |-> <<1, 2, 3, 1>>, dtype |-> 1],
      [name |-> N_NORM_W, dims |-> <<3>>,          dtype |-> 0],
      [name |-> N_NORM,   dims |-> <<2>>,          dtype |-> 0],
      [name |-> N_OUT_B,  dims |-> <<2, 1, 2>>,    dtype |-> 1],
      [name |-> N_OUT_W,  dims |-> <<4, 8>>,       dtype |-> 2],
      [name |-> N_OUT_W,  dims |-> << >>,          dtype |-> 0],
      [name |-> N_X_W,    dims |-> <<2, 2>>,       dtype |-> 1],
      [name |-> N_ROPE,   dims |-> <<2>>,          dtype |-> 0],
      [name |-> N_NORM_W, dims |-> <<2>>,          dtype |-> 4],
      [name |-> N_NORM_W, dims |-> <<1, 1, 1, 1, 1>>, dtype |-> 0] }

\* ---- vocabularies ----
Toks == << <<65>>, << >>, <<10>>, <<32>>, <<104, 32, 119, 32>>, <<32, 32>>,
           <<255>> >>

\* n entries that run through Toks, starting at shift
CycleVocab(n, shift) ==
    [i \in 1..n |-> <<Toks[((i - 1 + shift) % Len(Toks)) + 1],
                      1065353216 + ((i + shift) % 3)>>]

\* n one-byte entries that run through the byte values
ByteVocab(n) == [i \in 1..n |-> << <<(i - 1) % 256>>, i % 4>>]

MaxVocab == 260

VocabSizes == {0, 1, 4, MaxVocab - 1, MaxVocab}

Vocabs == {CycleVocab(n, sh) : n \in VocabSizes, sh \in 0..(Len(Toks) - 1)}
            \cup {ByteVocab(n) : n \in VocabSizes}

\* ---- the default container and run ----
DefaultHP == [n_embd |-> 4, n_mult |-> 1, n_head |-> 2, n_layer |-> 1,
              n_rot |-> 2, ftype |-> 1]

DefaultVocab == CycleVocab(1, 0)

DefaultCfg == [gqa |-> 1, context_length |-> 2048, eps |-> "5.0e-06",
               name |-> None, desc |-> None, input_name |-> "model.bin"]

GGJT(hp, items, ts) == Container(MAGIC, 3, hp, items, ts)

Run(d, c, md) == [data |-> d, cfg |-> c, metadata |-> md]

\* ---- metadata directories (what handle_metadata returns) ----
OverrideItems == { << <<97>>, 1>>, << <<98>>, 2, TT_CONTROL>> }

ParamsOverrides ==
    { [n_ctx |-> 4096, n_embd |-> e, n_layer |-> l, n_head |-> h,
       n_head_kv |-> 1, n_ff |-> 2, f_norm_eps |-> "1e-05"] :
         e \in {4, 5}, l \in {1, 2}, h \in {2, 3} }

\* ---- the runs explored ----
TensorRuns ==
    { Run(GGJT(DefaultHP, DefaultVocab, ts), DefaultCfg, None) :
        ts \in SeqsOf(TensorDescs, 0, MaxTensors) }

CutRuns ==
    { Run(CutEnd(GGJT(DefaultHP, DefaultVocab, ts), k), DefaultCfg, None) :
        ts \in {<<FFTensor>>} \cup {<<FFTensor, t>> : t \in TensorDescs},
        k \in 1..MaxCut }

PrefixRuns ==
    LET full == GGJT(DefaultHP, DefaultVocab, <<FFTensor>>)
    IN  { Run(SubSeq(full, 1, n), DefaultCfg, None) : n \in 0..Len(full) }
        \cup { Run(Container(<<116, 106, 103, 102>>, 3, DefaultHP,
                             DefaultVocab, <<FFTensor>>), DefaultCfg, None),
               Run(Container(MAGIC, 2, DefaultHP, DefaultVocab, <<FFTensor>>),
                   DefaultCfg, None) }

VocabRuns ==
    { Run(GGJT(DefaultHP, v, <<FFTensor>>), DefaultCfg, None) : v \in Vocabs }

HeadRuns ==
    { Run(GGJT([DefaultHP EXCEPT !.n_head = h, !.n_layer = l], DefaultVocab,
               <<FFTensor>>),
          [DefaultCfg EXCEPT !.gqa = g, !.name = nm, !.desc = ds], None) :
        h \in (0..MaxHead) \cup {64}, g \in (-1)..MaxHead, l \in {1},
        nm \in {None}, ds \in {None} }
    \cup
    { Run(GGJT([DefaultHP EXCEPT !.n_layer = l], DefaultVocab, <<FFTensor>>),
          [DefaultCfg EXCEPT !.name = nm, !.desc = ds], None) :
        l \in {0, 1}, nm \in {None, Some("llama")},
        ds \in {None, Some("a model")} }

OverrideRuns ==
    { Run(GGJT(DefaultHP, CycleVocab(n, 0), <<FFTensor>>), DefaultCfg,
          Some([loads |-> TRUE, params |-> po, vocab |-> vo])) :
        n \in 1..2, po \in ParamsOverrides,
        vo \in SeqsOf(OverrideItems, 0, MaxOverride) }
    \cup
    { Run(GGJT(DefaultHP, DefaultVocab, <<FFTensor>>), DefaultCfg,
          Some([loads |-> FALSE])) }

Runs == TensorRuns \cup CutRuns \cup PrefixRuns \cup VocabRuns \cup HeadRuns
            \cup OverrideRuns

\* ------------------------------------------------------------------------
\* State
\* ------------------------------------------------------------------------
VARIABLES
    data,            \* the bytes of the input file (np.memmap)
    cfg,             \* the parsed arguments
    metadata,        \* what handle_metadata loads, None without the option
    pc,              \* where main is
    failed_in,       \* the step that raised, "" while none has
    model,           \* GGMLV3Model
    params_override, \* GGMLToGGUF.params_override
    vocab_override,  \* GGMLToGGUF.vocab_override
    n_kv_head,       \* GGMLToGGUF.n_kv_head, None until resolved
    kv,              \* writer: the key/value pairs added, in order
    token_list,      \* writer: the argument of add_token_list, None before
    token_scores,    \* writer: the argument of add_token_scores
    token_types,     \* writer: the argument of add_token_types
    ti,              \* writer: the tensors added, in order
    written          \* writer: the write-to-file calls made, in order

vars == <<data, cfg, metadata, pc, failed_in, model, params_override,
          vocab_override, n_kv_head, kv, token_list, token_scores,
          token_types, ti, written>>

input  == <<data, cfg, metadata>>
writer == <<kv, token_list, token_scores, token_types, ti, written>>

Init ==
    /\ \E r \in Runs : data = r.data /\ cfg = r.cfg /\ metadata = r.metadata
    /\ pc = "start"
    /\ failed_in = ""
    /\ model = GGMLV3Model_init
    /\ params_override = None
    /\ vocab_override = None
    /\ n_kv_head = None
    /\ kv = << >>
    /\ token_list = None
    /\ token_scores = None
    /\ token_types = None
    /\ ti = << >>
    /\ written = << >>

\* an exception leaves main
Raise(step) == pc' = "failed" /\ failed_in' = step

\* main: offset = model.load(data, 0)
Load ==
    /\ pc = "start"
    /\ LET r == GGMLV3Model_load(data)
       IN  IF r.ok
           THEN model' = r.model /\ pc' = "loaded" /\ UNCHANGED failed_in
           ELSE Raise("load") /\ UNCHANGED model
    /\ UNCHANGED <<input, params_override, vocab_override, n_kv_head, writer>>

\* main: handle_metadata when --model-metadata-dir is given; it raises when
\* the directory cannot be loaded
HandleMetadata ==
    /\ pc = "loaded"
    /\ IF metadata = None
       THEN /\ pc' = "metadata"
            /\ UNCHANGED <<failed_in, params_override, vocab_override>>
       ELSE IF ~Val(metadata).loads
       THEN /\ Raise("handle_metadata")
            /\ UNCHANGED <<params_override, vocab_override>>
       ELSE /\ pc' = "metadata"
            /\ params_override' = Some(Val(metadata).params)
            /\ vocab_override' = Some(Val(metadata).vocab)
            /\ UNCHANGED failed_in
    /\ UNCHANGED <<input, model, n_kv_head, writer>>

\* main: converter = GGMLToGGUF(model, data, cfg, ...)
Construct ==
    /\ pc = "metadata"
    /\ LET r == ResolveKVHead(params_override, cfg.gqa,
                              model.hyperparameters.n_head)
       IN  IF r.ok
           THEN /\ n_kv_head' = Some(r.n_kv_head)
                /\ pc' = "converter"
                /\ UNCHANGED failed_in
           ELSE Raise("init") /\ UNCHANGED n_kv_head
    /\ UNCHANGED <<input, model, params_override, vocab_override, writer>>

\* save: self.add_params(gguf_writer)
AddParams ==
    /\ pc = "converter"
    /\ LET r == add_params(model.hyperparameters, cfg, params_override,
                           Val(n_kv_head))
       IN  /\ kv' = kv \o r.kv
           /\ IF r.ok THEN pc' = "params" /\ UNCHANGED failed_in
              ELSE Raise("add_params")
    /\ UNCHANGED <<input, model, params_override, vocab_override, n_kv_head,
                   token_list, token_scores, token_types, ti, written>>

\* save: self.add_vocab(gguf_writer)
AddVocab ==
    /\ pc = "params"
    /\ LET r == add_vocab(model, vocab_override)
       IN  /\ kv' = Append(kv, <<"tokenizer_model", "llama">>)
           /\ token_list' = r.tokens
           /\ token_scores' = r.scores
           /\ token_types' = r.toktypes
           /\ IF r.ok THEN pc' = "vocab" /\ UNCHANGED failed_in
              ELSE Raise("add_vocab")
    /\ UNCHANGED <<input, model, params_override, vocab_override, n_kv_head,
                   ti, written>>

\* an add_tensors whose failure is swallowed
AddTensorsSwallow ==
    /\ pc = "vocab"
    /\ ti' = add_tensors(data, model).ti
    /\ pc' = "tensors"
    /\ UNCHANGED <<input, failed_in, model, params_override, vocab_override,
                   n_kv_head, kv, token_list, token_scores, token_types,
                   written>>

\* save: self.add_tensors(gguf_writer)
AddTensors ==
    /\ pc = "vocab"
    /\ LET r == add_tensors(data, model)
       IN  /\ ti' = r.ti
           /\ IF r.ok THEN pc' = "tensors" /\ UNCHANGED failed_in
              ELSE Raise("add_tensors")
    /\ UNCHANGED <<input, model, params_override, vocab_override, n_kv_head,
                   kv, token_list, token_scores, token_types, written>>

\* save: gguf_writer.write_header_to_file()
WriteHeader ==
    /\ pc = "tensors"
    /\ written' = Append(written, "write_header_to_file")
    /\ pc' = "header"
    /\ UNCHANGED <<input, failed_in, model, params_override, vocab_override,
                   n_kv_head, kv, token_list, token_scores, token_types, ti>>

\* save: gguf_writer.write_kv_data_to_file()
WriteKVData ==
    /\ pc = "header"
    /\ written' = Append(written, "write_kv_data_to_file")
    /\ pc' = "kv_data"
    /\ UNCHANGED <<input, failed_in, model, params_override, vocab_override,
                   n_kv_head, kv, token_list, token_scores, token_types, ti>>

\* save: gguf_writer.write_tensors_to_file() and close()
WriteTensors ==
    /\ pc = "kv_data"
    /\ written' = Append(written, "write_tensors_to_file")
    /\ pc' = "done"
    /\ UNCHANGED <<input, failed_in, model, params_override, vocab_override,
                   n_kv_head, kv, token_list, token_scores, token_types, ti>>

Next ==
    \/ Load
    \/ HandleMetadata
    \/ Construct
    \/ AddParams
    \/ AddVocab
    \/ AddTensors
    \/ WriteHeader
    \/ WriteKVData
    \/ WriteTensors

Spec == Init /\ [][Next]_vars

\* ------------------------------------------------------------------------
\* Properties
\* ------------------------------------------------------------------------
\* model.load has returned
Decoded == pc # "start" /\ failed_in # "load"

Tensors == model.tensors
TIdx == 1..Len(model.tensors)

\* the offset at which the header of tensor i starts: the end of the
\* vocabulary for the first, the end of the previous payload for the others
HeaderOffset(i) ==
    IF i = 1
    THEN 36 + Vocab_load(data, 36, model.hyperparameters.n_vocab).size
    ELSE Tensors[i - 1].start_offset + Tensors[i - 1].len_bytes

\* the offset just past the name of tensor i, with the name length the
\* header declares
NameEnd(i) ==
    HeaderOffset(i) + 12 + 4 * Len(Tensors[i].dims)
        + UnpackU32(data, HeaderOffset(i) + 4)

HasSuffix(name) == EndsWith(name, SUFFIX_WEIGHT) \/ EndsWith(name, SUFFIX_BIAS)

\* C1: every tensor of a decoded model has len_bytes * block_size =
\* product(dims) * type_size; a tensor for which the division is not exact
\* makes decode fail.
C1_ExactByteLength ==
    Decoded =>
        \A i \in TIdx :
            Tensors[i].len_bytes * GGML_QUANT_SIZES[Tensors[i].dtype][1]
                = Prod(Tensors[i].dims) * GGML_QUANT_SIZES[Tensors[i].dtype][2]

\* C2: a tensor whose name ends in neither ".weight" nor ".bias" is never
\* passed to the writer, whatever was processed before it.
C2_UnsuffixedNeverEmitted ==
    \A i \in 1..Len(ti) : HasSuffix(Tensors[i].name)

\* upper-case hexadecimal digit
UpHexDigit(v) == IF v < 10 THEN 48 + v ELSE 65 + (v - 10)

\* C3: in heuristic mode a one-byte token b with id in [3,258] is emitted as
\* the six bytes "<0xHH>", HH the two-digit upper-case hexadecimal of b.
C3_ByteTokenTwoDigits ==
    (vocab_override = None /\ token_list # None) =>
        \A i \in 1..Len(model.vocab) :
            (i - 1 >= 3 /\ i - 1 <= 258 /\ Len(model.vocab[i][1]) = 1) =>
                LET b == model.vocab[i][1][1]
                IN  Val(token_list)[i] =
                        <<60, 48, 120, UpHexDigit(b \div 16),
                          UpHexDigit(b % 16), 62>>

\* the x of [1,256) with head_count / x = gqa
Divisors(h, g) == {x \in 1..255 : h % x = 0 /\ h \div x = g}

\* C4: without an override, gqa = 1 resolves to the head count; otherwise
\* the resolution gives the unique x of [1,256) with head_count / x = gqa
\* and fails when zero or more than one x matches.
C4_KVHeadResolution ==
    (params_override = None /\ pc \notin {"start", "loaded", "metadata"}
        /\ failed_in \notin {"load", "handle_metadata"}) =>
        LET h == model.hyperparameters.n_head
            g == cfg.gqa
        IN  IF g = 1 THEN n_kv_head = Some(h)
            ELSE IF Cardinality(Divisors(h, g)) = 1
                 THEN n_kv_head # None /\ Divisors(h, g) = {Val(n_kv_head)}
                 ELSE failed_in = "init" /\ n_kv_head = None

\* add_vocab has run
VocabRan == pc \in {"vocab", "tensors", "header", "kv_data", "done"}
                \/ failed_in \in {"add_vocab", "add_tensors"}

\* the positions of the override entries that carry a type
TypedIdx(vo) == {i \in 1..Len(vo) : Len(vo[i]) = 3}

\* C5: with an override whose entry count differs from n_vocab add_vocab
\* fails and hands no token, score or type list to the writer; with equal
\* counts the tokens and scores are handed over in the override's order and
\* the type list holds the types of exactly the entries that carry one.
C5_OverrideVocab ==
    (vocab_override # None /\ VocabRan) =>
        LET vo == Val(vocab_override)
        IN  IF Len(vo) # model.hyperparameters.n_vocab
            THEN /\ failed_in = "add_vocab"
                 /\ token_list = None
                 /\ token_scores = None
                 /\ token_types = None
            ELSE /\ failed_in # "add_vocab"
                 /\ Len(Val(token_list)) = Len(vo)
                 /\ Len(Val(token_scores)) = Len(vo)
                 /\ \A i \in 1..Len(vo) :
                        /\ Val(token_list)[i] = vo[i][1]
                        /\ Val(token_scores)[i] = vo[i][2]
                 /\ IF TypedIdx(vo) = {} THEN token_types = None
                    ELSE /\ Len(Val(token_types)) = Cardinality(TypedIdx(vo))
                         /\ \A i \in TypedIdx(vo) :
                              Val(token_types)[Cardinality(
                                  {j \in TypedIdx(vo) : j <= i})] = vo[i][3]

\* an override with typed and untyped entries has been handed over
C5_Witness ==
    /\ vocab_override # None
    /\ pc = "vocab"
    /\ token_types # None
    /\ Len(Val(token_types)) < Len(Val(token_list))

\* C6: the dimensions reported for a tensor are the decoded ones with the
\* first two exchanged when there are more than one (the others unchanged),
\* the decoded ones when there are fewer; the decoded records are what
\* decoding the input gives, before and after emission.
C6_DimsSwapped ==
    /\ \A i \in 1..Len(ti) :
        LET dims == Tensors[i].dims
            r    == ti[i].raw_shape
        IN  /\ Len(r) = Len(dims)
            /\ IF Len(dims) > 1
               THEN /\ r[1] = dims[2]
                    /\ r[2] = dims[1]
                    /\ \A j \in 3..Len(dims) : r[j] = dims[j]
               ELSE r = dims
    /\ Decoded => Tensors = LoadTensors(data, HeaderOffset(1), << >>).tensors

\* a tensor of four dimensions with distinct leading ones has been emitted
C6_Witness ==
    \E i \in 1..Len(ti) :
        /\ Len(Tensors[i].dims) = 4
        /\ Tensors[i].dims[1] # Tensors[i].dims[2]
        /\ Tensors[i].dims[3] # Tensors[i].dims[1]

\* the bytes of v with every space replaced by the three bytes of U+2581:
\* byte i of v lands two places further for every space before it
SpacesBefore(v, i) == Cardinality({j \in 1..(i - 1) : v[j] = 32})

IsSpaceExpansion(v, out) ==
    /\ Len(out) = Len(v) + 2 * SpacesBefore(v, Len(v) + 1)
    /\ \A i \in 1..Len(v) :
        LET q == i + 2 * SpacesBefore(v, i)
        IN  IF v[i] = 32
            THEN out[q] = 226 /\ out[q + 1] = 150 /\ out[q + 2] = 129
            ELSE out[q] = v[i]

\* C7: in heuristic mode one (token, score, type) triple is emitted per
\* decoded entry in id order, the score unchanged; the type is control iff
\* the token is empty, byte iff it has one byte and its id is in [3,258],
\* normal otherwise, and a normal token has its spaces replaced by U+2581.
C7_HeuristicVocab ==
    (vocab_override = None /\ VocabRan) =>
        /\ token_list # None /\ token_scores # None /\ token_types # None
        /\ Len(Val(token_list)) = Len(model.vocab)
        /\ Len(Val(token_scores)) = Len(model.vocab)
        /\ Len(Val(token_types)) = Len(model.vocab)
        /\ \A i \in 1..Len(model.vocab) :
            LET v  == model.vocab[i][1]
                id == i - 1
                tt == Val(token_types)[i]
            IN  /\ Val(token_scores)[i] = model.vocab[i][2]
                /\ tt \in {TT_NORMAL, TT_CONTROL, TT_BYTE}
                /\ (tt = TT_CONTROL) <=> (Len(v) = 0)
                /\ (tt = TT_BYTE) <=> (Len(v) = 1 /\ id >= 3 /\ id <= 258)
                /\ (tt = TT_NORMAL) => IsSpaceExpansion(v, Val(token_list)[i])

\* a vocabulary with one-byte tokens at ids 2, 3, 258 and 259, an empty
\* token inside [3,258] and a token with a space has been emitted
C7_Witness ==
    /\ vocab_override = None
    /\ pc = "vocab"
    /\ Len(model.vocab) >= 260
    /\ \A i \in {3, 4, 259, 260} : Len(model.vocab[i][1]) = 1
    /\ \E i \in 5..258 : Len(model.vocab[i][1]) = 0
    /\ \E i \in 1..Len(model.vocab) :
            Len(model.vocab[i][1]) > 1 /\ 32 \in {model.vocab[i][1][j] :
                                            j \in 1..Len(model.vocab[i][1])}

\* C8: every payload start offset of a decoded model is a multiple of 32,
\* the smallest one at or after the end of the tensor's name.
C8_PayloadAligned ==
    Decoded =>
        \A i \in TIdx :
            /\ Tensors[i].start_offset % 32 = 0
            /\ Tensors[i].start_offset >= NameEnd(i)
            /\ Tensors[i].start_offset - NameEnd(i) < 32

\* a model of two tensors has been decoded, one of them after padding and
\* the other after a payload that is not a multiple of 32 long
C8_Witness ==
    /\ Decoded
    /\ Len(Tensors) = 2
    /\ Tensors[1].start_offset > NameEnd(1)
    /\ Tensors[1].len_bytes % 32 # 0
    /\ Tensors[2].start_offset > NameEnd(2)

WriteCalls == <<"write_header_to_file", "write_kv_data_to_file",
                "write_tensors_to_file">>

\* C9: the write-to-file calls are made in the order header, metadata,
\* tensors and only after decoding, kv-head resolution and the emission of
\* metadata, vocabulary and every tensor have completed without failure;
\* a run in which a step has failed has made none.
C9_WritesAfterAllSteps ==
    /\ Len(written) <= 3
    /\ written = SubSeq(WriteCalls, 1, Len(written))
    /\ pc = "failed" => written = << >>
    /\ written # << >> =>
        /\ failed_in = ""
        /\ Decoded
        /\ n_kv_head # None
        /\ \E i \in 1..Len(kv) : kv[i][1] = "layer_norm_rms_eps"
        /\ token_list # None /\ token_scores # None
        /\ Len(ti) = Len(Tensors)
    /\ pc = "done" <=> written = WriteCalls

\* a run has written header, metadata and tensors
C9_Witness == pc = "done" /\ Len(written) = 3 /\ Len(ti) = 2

\* C10: the name and the payload of every tensor of a decoded model lie
\* within the input buffer.
C10_ReadsInBounds ==
    Decoded =>
        \A i \in TIdx :
            /\ NameEnd(i) <= Len(data)
            /\ Tensors[i].start_offset + Tensors[i].len_bytes <= Len(data)

====
